---- MODULE Spec2Model ----
(***************************************************************************)
(* Bot_FotosITO (src/bot_fotosito.py): a Telegram bot that receives a      *)
(* photo, asks for one of six location codes, then stores the photo under  *)
(* PHOTO_SAVE_ROOT/<code>/<name>, appends a row to registro_fotos.csv and  *)
(* uploads the file to OneDrive.                                           *)
(*                                                                         *)
(* The model follows the three handlers of the ConversationHandler         *)
(* (on_photo, choose_principal, cancel) statement by statement.  The       *)
(* positions of a handler (pc) are its awaits, plus the statements of the  *)
(* commit section of choose_principal (lines 199-214), which contains no   *)
(* await: the upload is a synchronous call inside the coroutine.  The      *)
(* application is built without concurrent_updates, so the handler of an   *)
(* update runs to its end before the next update is dispatched.            *)
(*                                                                         *)
(* The conversation state is kept per (chat, user), context.user_data per  *)
(* user.  An exception that leaves a handler is logged by the application: *)
(* the conversation state stays as it was.                                 *)
(*                                                                         *)
(* Environment faults that are modelled: the download fails or delivers    *)
(* zero bytes, the ledger cannot be opened for append, the token cannot be *)
(* acquired, the HTTP PUT answers with a non-success status.  Sending chat *)
(* messages is modelled as always succeeding.                              *)
(*                                                                         *)
(* Three specifications: Spec starts after a successful import with both   *)
(* BOT_TOKEN and MS_CLIENT_ID set; SpecStartup starts before the import    *)
(* with one of them not set; SpecPure applies ensure_csv to ledger files   *)
(* found on disk and frente_from_codigo to codes.                          *)
(***************************************************************************)
EXTENDS Integers, Sequences, FiniteSets, TLC

\* ------------------------------------------------------------------ bounds
\* Number of photos the users send in a run of the model.
MaxPhotos == 2
\* Last second of the wall clock (datetime.now() ranges over 0..MaxTime).
MaxTime == 1
\* Number of lines of a ledger file found on disk at import.
MaxLines == 2
\* Number of consecutive calls of ensure_csv().
MaxCalls == 2

\* --------------------------------------------------------------- constants
PHOTO_SAVE_ROOT == "./photos"
PRINCIPAL_CHOICES == <<"BR-OR", "BR-PON", "TALL-OR", "TALL-PON", "LOE-OR", "LOE-PON">>
CSV_HEADER == "Archivo,Frente,Ubicacion,FechaHora\n"
ASK_PRINCIPAL == 0
\* ConversationHandler.END
END == -1
\* allow_reentry=True of the ConversationHandler
allow_reentry == TRUE
ONEDRIVE_ROOT == "Bot_FotosITO"

\* ------------------------------------------------------------- environment
\* Telegram user ids.  User 1 has the username "ana", user 2 has none.
Users == {1, 2}
\* Chats in which a user talks to the bot: user 1 in a private chat and in a
\* group, user 2 in a private chat.  The conversation state is kept per
\* (chat, user); context.user_data is kept per user.
Chats == {"dm", "grp"}
ChatsOf(u) == IF u = 1 THEN Chats ELSE {"dm"}
Conversations == {k \in Chats \X Users : k[1] \in ChatsOf(k[2])}
\* callback_data values a button press can carry: a valid code and a value
\* that is not in PRINCIPAL_CHOICES.
ButtonData == {"BR-OR", "OTRO"}
\* Outcomes of File.download_to_drive.
DownloadOutcomes == {"ok", "empty", "error"}
\* HTTP status codes the Graph PUT can answer with.
HttpStatus == {200, 201, 500}

username(u) == IF u = 1 THEN "ana" ELSE ""

\* ----------------------------------------------------------- pure helpers
InChoices(p) == \E i \in DOMAIN PRINCIPAL_CHOICES : PRINCIPAL_CHOICES[i] = p

startswith(s, p) == Len(s) >= Len(p) /\ SubSeq(s, 1, Len(p)) = p

\* Faulty variant: the third prefix is tested as "LO".
frente_from_codigo_ShortPrefix(codigo) ==
  IF startswith(codigo, "BR") THEN "BREMEN"
  ELSE IF startswith(codigo, "TALL") THEN "TALLERES"
  ELSE IF startswith(codigo, "LO") THEN "LO ERRAZURIZ"
  ELSE "N/A"

frente_from_codigo(codigo) ==
  IF startswith(codigo, "BR") THEN "BREMEN"
  ELSE IF startswith(codigo, "TALL") THEN "TALLERES"
  ELSE IF startswith(codigo, "LOE") THEN "LO ERRAZURIZ"
  ELSE "N/A"

\* datetime.now().strftime("%Y-%m-%d %H-%M-%S"): one-second resolution.
strftime(t) ==
  "2024-01-01 10-00-" \o (IF t < 10 THEN "0" ELSE "") \o ToString(t)

\* user.username or 'user'
safe_user(u) == IF username(u) = "" THEN "user" ELSE username(u)

\* Faulty variant: the timestamp is left out of the generated name.
NombreArchivo_NoFecha(u, fecha_hora) ==
  safe_user(u) \o "_" \o ToString(u) \o ".jpg"

\* f"{safe_user}_{user.id}_{fecha_hora}.jpg"
NombreArchivo(u, fecha_hora) ==
  safe_user(u) \o "_" \o ToString(u) \o "_" \o fecha_hora \o ".jpg"

\* os.path.join
PathJoin(a, b) == a \o "/" \o b

\* f"{nombre},{frente},{principal},{fecha}\n"
CsvRow(nombre, frente, principal, fecha) ==
  nombre \o "," \o frente \o "," \o principal \o "," \o fecha \o "\n"

\* ------------------------------------------------------------------- state
VARIABLES
  now,       \* wall clock, in seconds
  nextFile,  \* handle of the next telegram File object (get_file)
  conv,      \* ConversationHandler state per (chat, user): END or ASK_PRINCIPAL
  pending,   \* context.user_data["pending"] per user
  pc,        \* position of the running handler per user, "idle" if none
  loc,       \* local variables of the running handler per user
  dirs,      \* directories that exist below PHOTO_SAVE_ROOT
  fs,        \* files below PHOTO_SAVE_ROOT: path -> [size, content]
  csv,       \* lines of registro_fotos.csv
  uploads,   \* calls of upload_to_onedrive made so far
  out,       \* what the handler did that ended in the last step (NoOut if none)
  photos,    \* history: per File handle, what became of its submission
  writes,    \* history: successful downloads, as [file, path, user, fecha]
  appended,  \* history: the File handle each appended ledger row is for
  BOT_TOKEN,     \* os.getenv("BOT_TOKEN", ""), "" if the variable is not set
  MS_CLIENT_ID,  \* os.getenv("MS_CLIENT_ID", ""), "" if the variable is not set
  proc,      \* the process: "import", "polling", or the error it exited with
  csv_exists,  \* os.path.exists(CSV_LOG)
  backups,   \* the registro_fotos-<ts>.bak.csv files: name -> lines
  calls,     \* history: number of calls of ensure_csv() made so far
  codigo,    \* argument of frente_from_codigo
  frente     \* history: what frente_from_codigo(codigo) returned, "" before the call

\* The configuration, the process and the ledger file as import leaves them,
\* and the argument and result of frente_from_codigo: no handler changes them.
boot == <<BOT_TOKEN, MS_CLIENT_ID, proc, csv_exists, backups, calls, codigo,
          frente>>

vars == <<now, nextFile, conv, pending, pc, loc, dirs, fs, csv, uploads, out,
          photos, writes, appended, boot>>

\* user_data without a "pending" key
NoPending == [file |-> 0, nombre |-> "", fecha |-> ""]

\* The locals of a handler that is not running.  Besides the variables of the
\* code (principal, file, nombre, fecha, dest_path, e, od_note) a handler
\* records the messages it sent and how many files it wrote, rows it appended
\* and uploads it called.
NoLocals == [handler |-> "", chat |-> "", principal |-> "", file |-> 0,
             nombre |-> "", fecha |-> "", dest_path |-> "", e |-> "",
             od_note |-> "", msgs |-> <<>>, nwrites |-> 0, nappends |-> 0,
             nuploads |-> 0]

NoOut == [user |-> 0, exc |-> "", l |-> NoLocals]

\* The Application is built without concurrent_updates (line 231): it takes
\* the next update from its queue only when the handler of the previous one
\* has ended, so at most one handler is running.
LoopFree(u) == \A v \in Users \ {u} : pc[v] = "idle"

\* State after import: BOT_TOKEN and MS_CLIENT_ID are set, PHOTO_SAVE_ROOT
\* exists, ensure_csv() has written the header to a fresh ledger, run_polling()
\* is waiting for updates, no conversation is open.
Init ==
  /\ BOT_TOKEN = "123:abc"
  /\ MS_CLIENT_ID = "app-id"
  /\ proc = "polling"
  /\ csv_exists = TRUE
  /\ backups = <<>>
  /\ calls = 1
  /\ codigo = ""
  /\ frente = ""
  /\ now = 0
  /\ nextFile = 1
  /\ conv = [k \in Conversations |-> END]
  /\ pending = [u \in Users |-> NoPending]
  /\ pc = [u \in Users |-> "idle"]
  /\ loc = [u \in Users |-> NoLocals]
  /\ dirs = {PHOTO_SAVE_ROOT}
  /\ fs = <<>>
  /\ csv = <<CSV_HEADER>>
  /\ uploads = {}
  /\ out = NoOut
  /\ photos = <<>>
  /\ writes = {}
  /\ appended = <<>>

\* What is seen of a handler when it ends: its user, the exception that left
\* it ("" if it returned) and its locals.
Outcome(u, l, exc) == [user |-> u, exc |-> exc, l |-> l]

\* The handler returns `state`: the ConversationHandler stores it for the
\* (chat, user) key.
Return(u, l, state) ==
  /\ conv' = [conv EXCEPT ![<<l.chat, u>>] = state]
  /\ pc' = [pc EXCEPT ![u] = "idle"]
  /\ loc' = [loc EXCEPT ![u] = NoLocals]
  /\ out' = Outcome(u, l, "")

\* The handler raises: the exception leaves the handler, the application logs
\* it, the conversation state is not changed and no message is sent.
Raise(u, l, exc) ==
  /\ pc' = [pc EXCEPT ![u] = "idle"]
  /\ loc' = [loc EXCEPT ![u] = NoLocals]
  /\ out' = Outcome(u, l, exc)
  /\ UNCHANGED conv

\* ---------------------------------------------------------------- on_photo
\* A photo message of user u in chat c is dispatched to on_photo (an entry
\* point: taken when no conversation is open, or in any state by
\* allow_reentry); the handler awaits get_file().  filters.PHOTO only lets
\* messages with a photo through, so the early return of lines 148-149 is
\* never taken.
OnPhotoStart(u, c) ==
  /\ pc[u] = "idle"
  /\ LoopFree(u)
  /\ nextFile <= MaxPhotos
  /\ conv[<<c, u>>] = END \/ allow_reentry
  /\ pc' = [pc EXCEPT ![u] = "ph_get_file"]
  /\ loc' = [loc EXCEPT ![u] = [NoLocals EXCEPT !.handler = "on_photo", !.chat = c]]
  /\ out' = NoOut
  /\ UNCHANGED <<now, nextFile, conv, pending, dirs, fs, csv, uploads,
                 photos, writes, appended>>
  /\ UNCHANGED boot

\* Faulty variant: the pending submission is only set when there is none
\* (user_data.setdefault instead of an assignment).
OnPhotoStore_KeepOld(u) ==
  /\ pc[u] = "ph_get_file"
  /\ LoopFree(u)
  /\ LET fecha_hora == strftime(now)
         nombre_archivo == NombreArchivo(u, fecha_hora)
         kept == pending[u].file # 0
     IN /\ pending' = [pending EXCEPT ![u] =
             IF kept THEN @
             ELSE [file |-> nextFile, nombre |-> nombre_archivo, fecha |-> fecha_hora]]
        /\ photos' = Append(photos,
             IF kept THEN "replaced" ELSE "pending")
        /\ loc' = [loc EXCEPT ![u].file = nextFile, ![u].nombre = nombre_archivo,
                              ![u].fecha = fecha_hora]
  /\ nextFile' = nextFile + 1
  /\ pc' = [pc EXCEPT ![u] = "ph_reply"]
  /\ out' = NoOut
  /\ UNCHANGED <<now, conv, dirs, fs, csv, uploads, writes, appended>>
  /\ UNCHANGED boot

\* get_file() returned; lines 152-161: the name is generated from the clock
\* and the pending submission is stored, replacing any earlier one; the
\* handler awaits reply_text().
OnPhotoStore(u) ==
  /\ pc[u] = "ph_get_file"
  /\ LoopFree(u)
  /\ LET fecha_hora == strftime(now)
         nombre_archivo == NombreArchivo(u, fecha_hora)
         old == pending[u].file
     IN /\ pending' = [pending EXCEPT ![u] =
             [file |-> nextFile, nombre |-> nombre_archivo, fecha |-> fecha_hora]]
        /\ photos' = Append(
             IF old # 0 THEN [photos EXCEPT ![old] = "replaced"] ELSE photos,
             "pending")
        /\ loc' = [loc EXCEPT ![u].file = nextFile, ![u].nombre = nombre_archivo,
                              ![u].fecha = fecha_hora]
  /\ nextFile' = nextFile + 1
  /\ pc' = [pc EXCEPT ![u] = "ph_reply"]
  /\ out' = NoOut
  /\ UNCHANGED <<now, conv, dirs, fs, csv, uploads, writes, appended>>
  /\ UNCHANGED boot

\* The keyboard was sent; on_photo returns ASK_PRINCIPAL.
OnPhotoReturn(u) ==
  /\ pc[u] = "ph_reply"
  /\ LoopFree(u)
  /\ Return(u, [loc[u] EXCEPT !.msgs = Append(@, "selecciona")], ASK_PRINCIPAL)
  /\ UNCHANGED <<now, nextFile, pending, dirs, fs, csv, uploads, photos, writes,
                 appended>>
  /\ UNCHANGED boot

\* ------------------------------------------------------- choose_principal
\* ensure_saved(path): the exception it raises, "" if none.
ensure_saved(files, path) ==
  IF path \notin DOMAIN files THEN "FileNotFoundError"
  ELSE IF files[path].size <= 0 THEN "IOError"
  ELSE ""

\* get_graph_token(): the exception raised, "" if a token is returned.
\* granted is whether the identity provider hands out a token.
get_graph_token(granted) ==
  IF MS_CLIENT_ID = "" THEN "RuntimeError: Define MS_CLIENT_ID"
  ELSE IF ~granted THEN "RuntimeError: token"
  ELSE ""

\* upload_to_onedrive(): the exception raised, "" if none.  token_ok is
\* whether the identity provider hands out a token, status the status code of
\* the response to the PUT.
upload_to_onedrive(token_ok, status) ==
  IF get_graph_token(token_ok) # "" THEN get_graph_token(token_ok)
  ELSE IF status \notin {200, 201} THEN "RuntimeError: Graph upload error"
  ELSE ""

\* f"/{ONEDRIVE_ROOT}/{remote_dir}/{filename}".replace("//", "/"): no root,
\* code or name of the model is empty, so no "//" arises.
RemotePath(remote_dir, filename) ==
  "/" \o ONEDRIVE_ROOT \o "/" \o remote_dir \o "/" \o filename

\* A callback query of user u in chat c with data d is dispatched to
\* choose_principal (the handler of state ASK_PRINCIPAL); the handler awaits
\* q.answer().
ChooseStart(u, c, d) ==
  /\ pc[u] = "idle"
  /\ LoopFree(u)
  /\ conv[<<c, u>>] = ASK_PRINCIPAL
  /\ pc' = [pc EXCEPT ![u] = "cp_answer"]
  /\ loc' = [loc EXCEPT ![u] = [NoLocals EXCEPT !.handler = "choose_principal",
                                                !.chat = c, !.principal = d]]
  /\ out' = NoOut
  /\ UNCHANGED <<now, nextFile, conv, pending, dirs, fs, csv, uploads,
                 photos, writes, appended>>
  /\ UNCHANGED boot

\* Faulty variant: the invalid option ends the conversation.
ChooseInvalid_End(u) ==
  /\ pc[u] = "cp_answer"
  /\ LoopFree(u)
  /\ ~InChoices(loc[u].principal)
  /\ Return(u, [loc[u] EXCEPT !.msgs = Append(@, "no valida")], END)
  /\ UNCHANGED <<now, nextFile, pending, dirs, fs, csv, uploads, photos, writes,
                 appended>>
  /\ UNCHANGED boot

\* Lines 181-183: the data is not one of PRINCIPAL_CHOICES.
ChooseInvalid(u) ==
  /\ pc[u] = "cp_answer"
  /\ LoopFree(u)
  /\ ~InChoices(loc[u].principal)
  /\ Return(u, [loc[u] EXCEPT !.msgs = Append(@, "no valida")], ASK_PRINCIPAL)
  /\ UNCHANGED <<now, nextFile, pending, dirs, fs, csv, uploads, photos, writes,
                 appended>>
  /\ UNCHANGED boot

\* Faulty variant: the conversation stays open when no photo is pending.
ChooseNoPending_Stay(u) ==
  /\ pc[u] = "cp_answer"
  /\ LoopFree(u)
  /\ InChoices(loc[u].principal)
  /\ pending[u].file = 0
  /\ Return(u, [loc[u] EXCEPT !.msgs = Append(@, "no encuentro la foto")],
            ASK_PRINCIPAL)
  /\ UNCHANGED <<now, nextFile, pending, dirs, fs, csv, uploads, photos, writes,
                 appended>>
  /\ UNCHANGED boot

\* Lines 185-188: user_data holds no pending submission.
ChooseNoPending(u) ==
  /\ pc[u] = "cp_answer"
  /\ LoopFree(u)
  /\ InChoices(loc[u].principal)
  /\ pending[u].file = 0
  /\ Return(u, [loc[u] EXCEPT !.msgs = Append(@, "no encuentro la foto")], END)
  /\ UNCHANGED <<now, nextFile, pending, dirs, fs, csv, uploads, photos, writes,
                 appended>>
  /\ UNCHANGED boot

\* Faulty variant: the name and the timestamp are generated when the button
\* is pressed.
ChooseMakedirs_PressTime(u) ==
  /\ pc[u] = "cp_answer"
  /\ LoopFree(u)
  /\ InChoices(loc[u].principal)
  /\ pending[u].file # 0
  /\ LET subdir == PathJoin(PHOTO_SAVE_ROOT, loc[u].principal)
         fecha_hora == strftime(now)
         nombre_archivo == NombreArchivo(u, fecha_hora)
     IN /\ dirs' = dirs \cup {subdir}
        /\ loc' = [loc EXCEPT ![u].file = pending[u].file,
                              ![u].nombre = nombre_archivo,
                              ![u].fecha = fecha_hora,
                              ![u].dest_path = PathJoin(subdir, nombre_archivo)]
  /\ pc' = [pc EXCEPT ![u] = "cp_download"]
  /\ out' = NoOut
  /\ UNCHANGED <<now, nextFile, conv, pending, fs, csv, uploads, photos,
                 writes, appended>>
  /\ UNCHANGED boot

\* Lines 190-198: the locals are read from the pending submission, the
\* directory of the code is created, the handler awaits download_to_drive().
ChooseMakedirs(u) ==
  /\ pc[u] = "cp_answer"
  /\ LoopFree(u)
  /\ InChoices(loc[u].principal)
  /\ pending[u].file # 0
  /\ LET subdir == PathJoin(PHOTO_SAVE_ROOT, loc[u].principal)
     IN /\ dirs' = dirs \cup {subdir}
        /\ loc' = [loc EXCEPT ![u].file = pending[u].file,
                              ![u].nombre = pending[u].nombre,
                              ![u].fecha = pending[u].fecha,
                              ![u].dest_path = PathJoin(subdir, pending[u].nombre)]
  /\ pc' = [pc EXCEPT ![u] = "cp_download"]
  /\ out' = NoOut
  /\ UNCHANGED <<now, nextFile, conv, pending, fs, csv, uploads, photos,
                 writes, appended>>
  /\ UNCHANGED boot

\* download_to_drive() ends: the bytes of the photo are written to dest_path
\* ("ok"), a zero-length file is written ("empty"), or the transfer raises and
\* nothing is written ("error").
ChooseDownload(u, outcome) ==
  /\ pc[u] = "cp_download"
  /\ LoopFree(u)
  /\ LET l == loc[u]
     IN CASE outcome = "ok" ->
               /\ fs' = (l.dest_path :> [size |-> 1, content |-> l.file]) @@ fs
               /\ writes' = writes \cup {[file |-> l.file, path |-> l.dest_path,
                                          user |-> u, fecha |-> l.fecha]}
               /\ loc' = [loc EXCEPT ![u].nwrites = @ + 1]
               /\ pc' = [pc EXCEPT ![u] = "cp_ensure"]
               /\ UNCHANGED conv /\ out' = NoOut
          [] outcome = "empty" ->
               /\ fs' = (l.dest_path :> [size |-> 0, content |-> l.file]) @@ fs
               /\ pc' = [pc EXCEPT ![u] = "cp_ensure"]
               /\ UNCHANGED <<conv, loc, writes>> /\ out' = NoOut
          [] OTHER ->
               /\ Raise(u, l, "NetworkError")
               /\ UNCHANGED <<fs, writes>>
  /\ UNCHANGED <<now, nextFile, pending, dirs, csv, uploads, photos, appended>>
  /\ UNCHANGED boot

\* Faulty variant: the file is not verified.
ChooseEnsureSaved_Skip(u) ==
  /\ pc[u] = "cp_ensure"
  /\ pc' = [pc EXCEPT ![u] = "cp_append"]
  /\ out' = NoOut
  /\ UNCHANGED <<now, nextFile, conv, pending, loc, dirs, fs, csv, uploads,
                 photos, writes, appended>>
  /\ UNCHANGED boot

\* Line 199: ensure_saved(dest_path).
ChooseEnsureSaved(u) ==
  /\ pc[u] = "cp_ensure"
  /\ LET exc == ensure_saved(fs, loc[u].dest_path)
     IN IF exc # ""
        THEN Raise(u, loc[u], exc)
        ELSE /\ pc' = [pc EXCEPT ![u] = "cp_append"]
             /\ UNCHANGED <<conv, loc>> /\ out' = NoOut
  /\ UNCHANGED <<now, nextFile, pending, dirs, fs, csv, uploads, photos, writes,
                 appended>>
  /\ UNCHANGED boot

\* Faulty variant: the ledger is opened with mode "w" instead of "a".
ChooseAppend_Truncate(u, opened) ==
  /\ pc[u] = "cp_append"
  /\ LET l == loc[u]
     IN IF opened
        THEN /\ csv' = <<CsvRow(l.nombre, frente_from_codigo(l.principal),
                                l.principal, l.fecha)>>
             /\ appended' = Append(appended, l.file)
             /\ loc' = [loc EXCEPT ![u].nappends = @ + 1]
             /\ pc' = [pc EXCEPT ![u] = "cp_upload"]
             /\ UNCHANGED conv /\ out' = NoOut
        ELSE /\ Raise(u, l, "OSError")
             /\ UNCHANGED <<csv, appended>>
  /\ UNCHANGED <<now, nextFile, pending, dirs, fs, uploads, photos, writes>>
  /\ UNCHANGED boot

\* Lines 202-204: the row is appended to the ledger, unless the ledger cannot
\* be opened for append (OSError).
ChooseAppend(u, opened) ==
  /\ pc[u] = "cp_append"
  /\ LET l == loc[u]
     IN IF opened
        THEN /\ csv' = Append(csv, CsvRow(l.nombre, frente_from_codigo(l.principal),
                                          l.principal, l.fecha))
             /\ appended' = Append(appended, l.file)
             /\ loc' = [loc EXCEPT ![u].nappends = @ + 1]
             /\ pc' = [pc EXCEPT ![u] = "cp_upload"]
             /\ UNCHANGED conv /\ out' = NoOut
        ELSE /\ Raise(u, l, "OSError")
             /\ UNCHANGED <<csv, appended>>
  /\ UNCHANGED <<now, nextFile, pending, dirs, fs, uploads, photos, writes>>
  /\ UNCHANGED boot

\* Faulty variant: the upload is made outside the try block.
ChooseUpload_Uncaught(u, token_ok, status) ==
  /\ pc[u] = "cp_upload"
  /\ LET l == loc[u]
         exc == upload_to_onedrive(token_ok, status)
     IN /\ uploads' = uploads \cup
             {[file |-> l.file, remote |-> RemotePath(l.principal, l.nombre)]}
        /\ IF exc # ""
           THEN Raise(u, [l EXCEPT !.nuploads = @ + 1, !.e = exc], exc)
           ELSE /\ loc' = [loc EXCEPT ![u].nuploads = @ + 1,
                                      ![u].od_note = "Subida a OneDrive OK."]
                /\ pc' = [pc EXCEPT ![u] = "cp_clear"]
                /\ UNCHANGED conv /\ out' = NoOut
  /\ UNCHANGED <<now, nextFile, pending, dirs, fs, csv, photos, writes, appended>>
  /\ UNCHANGED boot

\* Lines 207-212: upload_to_onedrive() is called and returns; an exception
\* it raises is caught and becomes the note of the final message.  The call
\* is synchronous: the handler keeps the event loop until it returns.
ChooseUpload(u, token_ok, status) ==
  /\ pc[u] = "cp_upload"
  /\ LET l == loc[u]
         exc == upload_to_onedrive(token_ok, status)
     IN /\ uploads' = uploads \cup
             {[file |-> l.file, remote |-> RemotePath(l.principal, l.nombre)]}
        /\ loc' = [loc EXCEPT ![u].nuploads = @ + 1,
                              ![u].e = exc,
                              ![u].od_note = IF exc = "" THEN "Subida a OneDrive OK."
                                             ELSE "OneDrive fallo: " \o exc]
  /\ pc' = [pc EXCEPT ![u] = "cp_clear"]
  /\ out' = NoOut
  /\ UNCHANGED <<now, nextFile, conv, pending, dirs, fs, csv, photos, writes,
                 appended>>
  /\ UNCHANGED boot

\* Faulty variant: user_data is not cleared when the submission completes.
ChooseClear_Skip(u) ==
  /\ pc[u] = "cp_clear"
  /\ photos' = IF pending[u].file # 0
               THEN [photos EXCEPT ![pending[u].file] = "done"]
               ELSE photos
  /\ pc' = [pc EXCEPT ![u] = "cp_msg"]
  /\ out' = NoOut
  /\ UNCHANGED <<now, nextFile, conv, pending, loc, dirs, fs, csv, uploads,
                 writes, appended>>
  /\ UNCHANGED boot

\* Line 214: context.user_data.clear(); the handler awaits edit_message_text().
ChooseClear(u) ==
  /\ pc[u] = "cp_clear"
  /\ pending' = [pending EXCEPT ![u] = NoPending]
  /\ photos' = IF pending[u].file # 0
               THEN [photos EXCEPT ![pending[u].file] = "done"]
               ELSE photos
  /\ pc' = [pc EXCEPT ![u] = "cp_msg"]
  /\ out' = NoOut
  /\ UNCHANGED <<now, nextFile, conv, loc, dirs, fs, csv, uploads, writes,
                 appended>>
  /\ UNCHANGED boot

\* Lines 215-222: the message was sent; choose_principal returns END.
ChooseReturn(u) ==
  /\ pc[u] = "cp_msg"
  /\ LoopFree(u)
  /\ Return(u, [loc[u] EXCEPT !.msgs = Append(@, "Guardado. " \o loc[u].od_note)],
            END)
  /\ UNCHANGED <<now, nextFile, pending, dirs, fs, csv, uploads, photos, writes,
                 appended>>
  /\ UNCHANGED boot

\* ------------------------------------------------------------------ cancel
\* Faulty variant: cancel ends the conversation without clearing user_data.
Cancel_NoClear(u, c) ==
  /\ pc[u] = "idle"
  /\ LoopFree(u)
  /\ conv[<<c, u>>] = ASK_PRINCIPAL
  /\ pc' = [pc EXCEPT ![u] = "cn_reply"]
  /\ loc' = [loc EXCEPT ![u] = [NoLocals EXCEPT !.handler = "cancel", !.chat = c]]
  /\ out' = NoOut
  /\ UNCHANGED <<now, nextFile, conv, pending, dirs, fs, csv, uploads,
                 photos, writes, appended>>
  /\ UNCHANGED boot

\* Faulty variant: the pending submissions are kept in one dictionary shared
\* by all users (bot_data instead of user_data), which cancel clears.
Cancel_ClearAll(u, c) ==
  /\ pc[u] = "idle"
  /\ LoopFree(u)
  /\ conv[<<c, u>>] = ASK_PRINCIPAL
  /\ pending' = [v \in Users |-> NoPending]
  /\ photos' = [f \in DOMAIN photos |->
                  IF \E v \in Users : pending[v].file = f THEN "cancelled"
                  ELSE photos[f]]
  /\ pc' = [pc EXCEPT ![u] = "cn_reply"]
  /\ loc' = [loc EXCEPT ![u] = [NoLocals EXCEPT !.handler = "cancel", !.chat = c]]
  /\ out' = NoOut
  /\ UNCHANGED <<now, nextFile, conv, dirs, fs, csv, uploads, writes,
                 appended>>
  /\ UNCHANGED boot

\* /cancel of user u in chat c is dispatched to cancel (a fallback: taken
\* only while a conversation is open); line 225: user_data.clear(); the
\* handler awaits reply_text().
Cancel(u, c) ==
  /\ pc[u] = "idle"
  /\ LoopFree(u)
  /\ conv[<<c, u>>] = ASK_PRINCIPAL
  /\ pending' = [pending EXCEPT ![u] = NoPending]
  /\ photos' = IF pending[u].file # 0
               THEN [photos EXCEPT ![pending[u].file] = "cancelled"]
               ELSE photos
  /\ pc' = [pc EXCEPT ![u] = "cn_reply"]
  /\ loc' = [loc EXCEPT ![u] = [NoLocals EXCEPT !.handler = "cancel", !.chat = c]]
  /\ out' = NoOut
  /\ UNCHANGED <<now, nextFile, conv, dirs, fs, csv, uploads, writes,
                 appended>>
  /\ UNCHANGED boot

\* Lines 226-227: the notice was sent; cancel returns END.
CancelReturn(u) ==
  /\ pc[u] = "cn_reply"
  /\ LoopFree(u)
  /\ Return(u, [loc[u] EXCEPT !.msgs = Append(@, "Cancelado")], END)
  /\ UNCHANGED <<now, nextFile, pending, dirs, fs, csv, uploads, photos, writes,
                 appended>>
  /\ UNCHANGED boot

\* ------------------------------------------------------------------- clock
Tick ==
  /\ now < MaxTime
  /\ now' = now + 1
  /\ out' = NoOut
  /\ UNCHANGED <<nextFile, conv, pending, pc, loc, dirs, fs, csv, uploads,
                 photos, writes, appended>>
  /\ UNCHANGED boot

Next ==
  \/ \E u \in Users : \E c \in ChatsOf(u) : OnPhotoStart(u, c)
  \/ \E u \in Users : OnPhotoStore(u)
  \/ \E u \in Users : OnPhotoReturn(u)
  \/ \E u \in Users, d \in ButtonData : \E c \in ChatsOf(u) : ChooseStart(u, c, d)
  \/ \E u \in Users : ChooseInvalid(u)
  \/ \E u \in Users : ChooseNoPending(u)
  \/ \E u \in Users : ChooseMakedirs(u)
  \/ \E u \in Users, o \in DownloadOutcomes : ChooseDownload(u, o)
  \/ \E u \in Users : ChooseEnsureSaved(u)
  \/ \E u \in Users, opened \in BOOLEAN : ChooseAppend(u, opened)
  \/ \E u \in Users, t \in BOOLEAN, s \in HttpStatus : ChooseUpload(u, t, s)
  \/ \E u \in Users : ChooseClear(u)
  \/ \E u \in Users : ChooseReturn(u)
  \/ \E u \in Users : \E c \in ChatsOf(u) : Cancel(u, c)
  \/ \E u \in Users : CancelReturn(u)
  \/ Tick

Spec == Init /\ [][Next]_vars
\* ------------------------------------------------------------- ensure_csv
\* str.strip(): leading and trailing whitespace removed.
Whitespace == {" ", "\t", "\n", "\r"}

RECURSIVE lstrip(_)
lstrip(s) ==
  IF Len(s) > 0 /\ SubSeq(s, 1, 1) \in Whitespace
  THEN lstrip(SubSeq(s, 2, Len(s)))
  ELSE s

RECURSIVE rstrip(_)
rstrip(s) ==
  IF Len(s) > 0 /\ SubSeq(s, Len(s), Len(s)) \in Whitespace
  THEN rstrip(SubSeq(s, 1, Len(s) - 1))
  ELSE s

strip(s) == lstrip(rstrip(s))

\* datetime.now().strftime("%Y%m%d_%H%M%S")
strftime_compact(t) ==
  "20240101_1000" \o (IF t < 10 THEN "0" ELSE "") \o ToString(t)

\* os.path.join(PHOTO_SAVE_ROOT, f"registro_fotos-{ts}.bak.csv")
BackupPath(ts) == PathJoin(PHOTO_SAVE_ROOT, "registro_fotos-" \o ts \o ".bak.csv")

\* Lines a ledger file found on disk can consist of: the header, the header
\* with a Windows line ending, the header of an older schema, a row, and a
\* line whose bytes are not valid UTF-8.
HeaderCRLF == "Archivo,Frente,Ubicacion,FechaHora\r\n"
OldHeader == "Archivo,Ubicacion,FechaHora\n"
SampleRow == "ana_1_2024-01-01 10-00-00.jpg,BREMEN,BR-OR,2024-01-01 10-00-00\n"
NotUtf8 == "A<0xF1>o,Frente,Ubicacion\n"
LedgerLines == {CSV_HEADER, HeaderCRLF, OldHeader, SampleRow, NotUtf8}

\* The contents of a ledger file found on disk: up to MaxLines lines, bytes
\* that are not UTF-8 only in the first line.
LedgerFiles ==
  {f \in UNION {[1..n -> LedgerLines] : n \in 0..MaxLines} :
     \A i \in DOMAIN f : i > 1 => f[i] # NotUtf8}

\* f.readline() of a file opened with encoding="utf-8": the first line, "" for
\* an empty file; UnicodeDecodeError if the bytes cannot be decoded.
readline(lines) ==
  IF lines = <<>> THEN [exc |-> "", first |-> ""]
  ELSE IF lines[1] = NotUtf8 THEN [exc |-> "UnicodeDecodeError", first |-> ""]
  ELSE [exc |-> "", first |-> lines[1]]

\* ensure_csv() on a ledger that exists or not, with the given lines, beside
\* the backup files baks, at second t: the ledger and the backup files it
\* leaves.  replace_ok is whether os.replace succeeds.  An exception of
\* readline or os.replace is caught (lines 63-66): the ledger is rewritten
\* with the header only.
ensure_csv(exists, lines, baks, t, replace_ok) ==
  IF ~exists
  THEN [exists |-> TRUE, lines |-> <<CSV_HEADER>>, baks |-> baks]
  ELSE LET r == readline(lines)
       IN IF r.exc # ""
          THEN [exists |-> TRUE, lines |-> <<CSV_HEADER>>, baks |-> baks]
          ELSE IF strip(r.first) # strip(CSV_HEADER)
          THEN IF replace_ok
               THEN [exists |-> TRUE, lines |-> <<CSV_HEADER>>,
                     baks |-> (BackupPath(strftime_compact(t)) :> lines) @@ baks]
               ELSE [exists |-> TRUE, lines |-> <<CSV_HEADER>>, baks |-> baks]
          ELSE [exists |-> exists, lines |-> lines, baks |-> baks]

\* Arguments of frente_from_codigo: the six codes and strings that start with
\* none of the three prefixes.
Codigos == {PRINCIPAL_CHOICES[i] : i \in DOMAIN PRINCIPAL_CHOICES}
           \cup {"OTRO", "", "B", "LO-OR", "br-or", "TAL-OR", "XBR-OR"}

\* A ledger file as found on disk and an argument of frente_from_codigo;
\* nothing else has happened.
InitPure ==
  /\ now = 0
  /\ nextFile = 1
  /\ conv = [k \in Conversations |-> END]
  /\ pending = [u \in Users |-> NoPending]
  /\ pc = [u \in Users |-> "idle"]
  /\ loc = [u \in Users |-> NoLocals]
  /\ dirs = {PHOTO_SAVE_ROOT}
  /\ fs = <<>>
  /\ uploads = {}
  /\ out = NoOut
  /\ photos = <<>>
  /\ writes = {}
  /\ appended = <<>>
  /\ BOT_TOKEN = "123:abc"
  /\ MS_CLIENT_ID = "app-id"
  /\ proc = "import"
  /\ csv_exists \in BOOLEAN
  /\ csv \in IF csv_exists THEN LedgerFiles ELSE {<<>>}
  /\ backups = <<>>
  /\ calls = 0
  /\ codigo \in Codigos
  /\ frente = ""

\* A call of ensure_csv().
EnsureCsvCall(replace_ok) ==
  /\ calls < MaxCalls
  /\ LET r == ensure_csv(csv_exists, csv, backups, now, replace_ok)
     IN /\ csv_exists' = r.exists
        /\ csv' = r.lines
        /\ backups' = r.baks
  /\ calls' = calls + 1
  /\ UNCHANGED <<now, nextFile, conv, pending, pc, loc, dirs, fs, uploads, out,
                 photos, writes, appended>>
  /\ UNCHANGED <<BOT_TOKEN, MS_CLIENT_ID, proc, codigo, frente>>

\* A call of frente_from_codigo(codigo).
FrenteCall ==
  /\ frente = ""
  /\ frente' = frente_from_codigo(codigo)
  /\ UNCHANGED <<now, nextFile, conv, pending, pc, loc, dirs, fs, csv, uploads,
                 out, photos, writes, appended>>
  /\ UNCHANGED <<BOT_TOKEN, MS_CLIENT_ID, proc, csv_exists, backups, calls,
                 codigo>>

NextPure ==
  \/ \E replace_ok \in BOOLEAN : EnsureCsvCall(replace_ok)
  \/ FrenteCall
  \/ Tick

SpecPure == InitPure /\ [][NextPure]_vars

\* ------------------------------------------------------------------ import
\* The process is started with BOT_TOKEN or MS_CLIENT_ID not set, on a disk
\* without photo directory and ledger.
InitStartup ==
  /\ now = 0
  /\ nextFile = 1
  /\ conv = [k \in Conversations |-> END]
  /\ pending = [u \in Users |-> NoPending]
  /\ pc = [u \in Users |-> "idle"]
  /\ loc = [u \in Users |-> NoLocals]
  /\ dirs = {}
  /\ fs = <<>>
  /\ csv = <<>>
  /\ uploads = {}
  /\ out = NoOut
  /\ photos = <<>>
  /\ writes = {}
  /\ appended = <<>>
  /\ BOT_TOKEN \in {"", "123:abc"}
  /\ MS_CLIENT_ID \in {"", "app-id"}
  /\ BOT_TOKEN = "" \/ MS_CLIENT_ID = ""
  /\ proc = "import"
  /\ csv_exists = FALSE
  /\ backups = <<>>
  /\ calls = 0
  /\ codigo = ""
  /\ frente = ""

\* Faulty variant: BOT_TOKEN is not checked.
Import_NoTokenCheck ==
  /\ proc = "import"
  /\ LET r == ensure_csv(csv_exists, csv, backups, now, TRUE)
     IN /\ csv_exists' = r.exists
        /\ csv' = r.lines
        /\ backups' = r.baks
  /\ dirs' = dirs \cup {PHOTO_SAVE_ROOT}
  /\ calls' = calls + 1
  /\ proc' = "polling"
  /\ UNCHANGED <<now, nextFile, conv, pending, pc, loc, fs, uploads, out,
                 photos, writes, appended>>
  /\ UNCHANGED <<BOT_TOKEN, MS_CLIENT_ID, codigo, frente>>

\* The module is imported and main() is run: without BOT_TOKEN the import
\* raises RuntimeError (lines 18-20) and the process exits; otherwise
\* PHOTO_SAVE_ROOT is created (24), ensure_csv() is called (67) and the
\* application starts polling (243).  MS_CLIENT_ID is read (32) and not
\* checked.
Import ==
  /\ proc = "import"
  /\ IF BOT_TOKEN = ""
     THEN /\ proc' = "RuntimeError: Define BOT_TOKEN"
          /\ UNCHANGED <<dirs, csv, csv_exists, backups, calls>>
     ELSE /\ LET r == ensure_csv(csv_exists, csv, backups, now, TRUE)
             IN /\ csv_exists' = r.exists
                /\ csv' = r.lines
                /\ backups' = r.baks
          /\ dirs' = dirs \cup {PHOTO_SAVE_ROOT}
          /\ calls' = calls + 1
          /\ proc' = "polling"
  /\ UNCHANGED <<now, nextFile, conv, pending, pc, loc, fs, uploads, out,
                 photos, writes, appended>>
  /\ UNCHANGED <<BOT_TOKEN, MS_CLIENT_ID, codigo, frente>>

\* Updates are handled once the application is polling.
NextStartup ==
  \/ Import
  \/ proc = "polling" /\ Next

SpecStartup == InitStartup /\ [][NextStartup]_vars

\* ------------------------------------------------- vocabulary of the claims
\* No handler is running.
Quiescent == \A u \in Users : pc[u] = "idle"

\* The File handles handed out so far: one per submission.
Files == DOMAIN photos

\* A ledger row was appended for submission f.
RowsOf(f, apps) == {i \in DOMAIN apps : apps[i] = f}
HasRow(f) == RowsOf(f, appended) # {}

\* The bytes of submission f were written to a file.
WritesOf(f, ws) == {w \in ws : w.file = f}
Written(f) == WritesOf(f, writes) # {}

UploadsOf(f, ups) == {x \in ups : x.file = f}

\* The text of `s` before the first occurrence of the one-character string ch
\* at or after position i (all of it from i on if there is none).
RECURSIVE Until(_, _, _)
Until(s, ch, i) ==
  IF i > Len(s) \/ SubSeq(s, i, i) = ch THEN ""
  ELSE SubSeq(s, i, i) \o Until(s, ch, i + 1)

\* The first field of a ledger row.
ArchivoOf(row) == Until(row, ",", 1)

\* The position of the last "/" of a path, 0 if it has none.
RECURSIVE LastSlash(_, _)
LastSlash(path, i) ==
  IF i = 0 THEN 0
  ELSE IF SubSeq(path, i, i) = "/" THEN i
  ELSE LastSlash(path, i - 1)

Basename(path) == SubSeq(path, LastSlash(path, Len(path)) + 1, Len(path))

\* The handler that ended in the last step was choose_principal with a valid
\* code and a pending submission: the final transition.
FinalTransitionEnded ==
  /\ out.l.handler = "choose_principal"
  /\ InChoices(out.l.principal)
  /\ out.l.file # 0

\* The positions of choose_principal from the download to the clearing of
\* user_data.
CommitPositions == {"cp_download", "cp_ensure", "cp_append", "cp_upload", "cp_clear"}

\* A step leaves the disk, the ledger and the uploads as they are.
Frame ==
  /\ fs' = fs
  /\ dirs' = dirs
  /\ csv' = csv
  /\ uploads' = uploads
  /\ writes' = writes
  /\ appended' = appended

\* In a step nothing is written, appended or uploaded for a submission whose
\* fate is `fate`, and its fate stays.
NeverTouched(fate) ==
  \A f \in Files :
    photos[f] = fate =>
      /\ photos'[f] = fate
      /\ WritesOf(f, writes') = WritesOf(f, writes)
      /\ RowsOf(f, appended') = RowsOf(f, appended)
      /\ UploadsOf(f, uploads') = UploadsOf(f, uploads)
      /\ \A q \in DOMAIN fs' :
           fs'[q].content = f => (q \in DOMAIN fs /\ fs[q] = fs'[q])
      /\ \A u \in Users : pc'[u] \in CommitPositions => loc'[u].file # f

\* ----------------------------------------------------------------- claims
\* C1 (as stated): whenever no handler is running, the ledger has a row for a
\* submission if and only if the submission's file was successfully written,
\* and every completed submission has a row whose filename field is the
\* basename of a file that was written.
C1_LedgerRowIffFileWritten ==
  Quiescent =>
    /\ \A f \in Files : HasRow(f) <=> Written(f)
    /\ \A f \in Files :
         photos[f] = "done" =>
           \E i \in RowsOf(f, appended) :
             \E w \in WritesOf(f, writes) : ArchivoOf(csv[i + 1]) = Basename(w.path)

\* C2: when the upload of choose_principal fails (no token, or a response
\* that is neither 200 nor 201), the handler still returns END, user_data is
\* cleared, the one message sent carries the warning, and the file and the
\* ledger row written before the upload are there.
C2_UploadFailureIsNotFatal ==
  /\ \A u \in Users :
       (pc[u] \in {"cp_clear", "cp_msg"} /\ loc[u].e # "") =>
         /\ ensure_saved(fs, loc[u].dest_path) = ""
         /\ HasRow(loc[u].file)
  /\ (out.l.handler = "choose_principal" /\ out.l.e # "") =>
       /\ out.exc = ""
       /\ conv[<<out.l.chat, out.user>>] = END
       /\ pending[out.user] = NoPending
       /\ out.l.msgs = <<"Guardado. OneDrive fallo: " \o out.l.e>>
       /\ ensure_saved(fs, out.l.dest_path) = ""
       /\ fs[out.l.dest_path].content = out.l.file
       /\ \E i \in RowsOf(out.l.file, appended) :
            csv[i + 1] = CsvRow(out.l.nombre, frente_from_codigo(out.l.principal),
                                out.l.principal, out.l.fecha)

C2_Witness ==
  /\ out.l.handler = "choose_principal"
  /\ out.l.e = "RuntimeError: Graph upload error"
  /\ out.exc = ""
  /\ conv[<<out.l.chat, out.user>>] = END
  /\ HasRow(out.l.file)

\* C3 (as stated): no exception of the commit step leaves choose_principal,
\* and the handler sends exactly one message, for every valid code and every
\* pending submission.
C3_NoExceptionEscapes ==
  FinalTransitionEnded => (out.exc = "" /\ Len(out.l.msgs) = 1)

C5_InvalidPressChangesNothing ==
  [][\A u \in Users :
       (/\ pc[u] = "cp_answer"
        /\ ~InChoices(loc[u].principal)
        /\ pc'[u] # pc[u]) =>
         /\ Frame
         /\ pc'[u] = "idle"
         /\ pending' = pending
         /\ conv' = conv
         /\ conv'[<<loc[u].chat, u>>] = ASK_PRINCIPAL
         /\ out'.exc = ""]_vars

C5_Witness ==
  /\ out.l.handler = "choose_principal"
  /\ ~InChoices(out.l.principal)
  /\ out.l.msgs = <<"no valida">>
  /\ conv[<<out.l.chat, out.user>>] = ASK_PRINCIPAL
  /\ pending[out.user].file # 0

\* C6: a photo received while the conversation is in ASK_PRINCIPAL replaces
\* the pending submission by the one of the new photo, the conversation is in
\* ASK_PRINCIPAL when on_photo returns, and from then on nothing is written,
\* appended or uploaded for the replaced submission.
C6_NewPhotoRestartsTheFlow ==
  [][/\ \A u \in Users :
          /\ (/\ pc[u] = "ph_get_file"
              /\ pc'[u] = "ph_reply"
              /\ conv[<<loc[u].chat, u>>] = ASK_PRINCIPAL) =>
               /\ pending'[u] = [file |-> nextFile,
                                 nombre |-> NombreArchivo(u, strftime(now)),
                                 fecha |-> strftime(now)]
               /\ nextFile \notin Files
               /\ Frame
               /\ pending[u].file # 0 => photos'[pending[u].file] = "replaced"
          /\ (pc[u] = "ph_reply" /\ pc'[u] = "idle") =>
               /\ conv'[<<loc[u].chat, u>>] = ASK_PRINCIPAL
               /\ pending'[u] = pending[u]
               /\ pending[u].file = loc[u].file
               /\ Frame
     /\ NeverTouched("replaced")]_vars

C6_Witness ==
  /\ \E f \in Files : photos[f] = "replaced"
  /\ \E g \in Files : photos[g] = "done" /\ HasRow(g)
  /\ out.l.handler = "choose_principal"

\* C7: /cancel in ASK_PRINCIPAL clears the pending submission and ends the
\* conversation without writing, appending or uploading anything, and nothing
\* is written, appended or uploaded for the cancelled submission afterwards.
C7_CancelCommitsNothing ==
  [][/\ \A u \in Users :
          /\ (pc[u] = "idle" /\ pc'[u] = "cn_reply") =>
               /\ conv[<<loc'[u].chat, u>>] = ASK_PRINCIPAL
               /\ pending'[u] = NoPending
               /\ Frame
          /\ (pc[u] = "cn_reply" /\ pc'[u] = "idle") =>
               /\ conv'[<<loc[u].chat, u>>] = END
               /\ pending'[u] = NoPending
               /\ out'.exc = ""
               /\ out'.l.msgs = <<"Cancelado">>
               /\ Frame
          /\ (pc[u] \in CommitPositions) => pending[u].file # 0
     /\ NeverTouched("cancelled")]_vars

C7_Witness ==
  /\ \E f \in Files : photos[f] = "cancelled" /\ ~Written(f) /\ ~HasRow(f)
  /\ out.l.handler = "choose_principal"
  /\ InChoices(out.l.principal)
  /\ out.l.msgs = <<"no encuentro la foto">>

\* A prefix test on the lines of the ledger.
IsPrefix(a, b) == Len(a) <= Len(b) /\ SubSeq(b, 1, Len(a)) = a

\* C8: the ledger is append-only (a step keeps every line and adds at most
\* one); only choose_principal with a valid code and a pending submission
\* writes, appends or uploads; a run of it writes at most one file, appends at
\* most one row and calls the upload at most once, and exactly once each when
\* it completes; a completed submission has exactly one row.
C8_AppendOnlyOneRecordPerSubmission ==
  /\ [][/\ IsPrefix(csv, csv')
        /\ Len(csv') <= Len(csv) + 1
        /\ ~Frame =>
             \E u \in Users :
               /\ loc[u].handler = "choose_principal"
               /\ InChoices(loc[u].principal)
               /\ pending[u].file # 0
               /\ pc[u] \in {"cp_answer"} \cup CommitPositions]_vars
  /\ [](/\ \A u \in Users :
             loc[u].nwrites <= 1 /\ loc[u].nappends <= 1 /\ loc[u].nuploads <= 1
        /\ (FinalTransitionEnded /\ out.exc = "") =>
             (out.l.nwrites = 1 /\ out.l.nappends = 1 /\ out.l.nuploads = 1)
        /\ Len(csv) = Len(appended) + 1
        /\ csv[1] = CSV_HEADER
        /\ \A f \in Files :
             /\ Cardinality(RowsOf(f, appended)) <= 1
             /\ photos[f] = "done" => Cardinality(RowsOf(f, appended)) = 1)

C8_Witness ==
  /\ Len(csv) = 3
  /\ \E f, g \in Files : f # g /\ photos[f] = "done" /\ photos[g] = "done"
  /\ \E w1, w2 \in writes : w1.user # w2.user

\* C9 (as stated): no two committed submissions are written to the same path.
C9_NoTwoSubmissionsSamePath ==
  \A w1, w2 \in writes :
    (w1.file # w2.file /\ photos[w1.file] = "done" /\ photos[w2.file] = "done")
      => w1.path # w2.path

\* C9 (amended): two submissions are written to the same path only if they are
\* of the same user and have the same capture timestamp (to the second).
C9_SamePathOnlySameUserSameSecond ==
  \A w1, w2 \in writes :
    (w1.file # w2.file /\ w1.path = w2.path)
      => (w1.user = w2.user /\ w1.fecha = w2.fecha)

C9_Witness ==
  \E w1, w2 \in writes :
    /\ w1.file # w2.file
    /\ w1.path = w2.path
    /\ photos[w1.file] = "done"
    /\ photos[w2.file] = "done"
    /\ fs[w1.path].content = w2.file

\* C10 (as stated): while the choose_principal of one user waits in the upload
\* step, a photo of another user can be handled.
C10_HungUploadBlocksOnlyThatUser ==
  \A u, v \in Users :
    (u # v /\ pc[u] = "cp_upload" /\ pc[v] = "idle" /\ nextFile <= MaxPhotos)
      => ENABLED (\E c \in ChatsOf(v) : OnPhotoStart(v, c))

\* A step of the model is a step of a handler of user u.
StepOf(u) == pc[u] # "idle" \/ pc'[u] # "idle"

\* The pending submission of user u is one of u's own photos: its name carries
\* u's handle and id and the timestamp stored with it.
OwnPending(u) ==
  pending[u].file # 0 =>
    pending[u].nombre =
      safe_user(u) \o "_" \o ToString(u) \o "_" \o pending[u].fecha \o ".jpg"

\* C11: the pending submission is per user.  A step of a handler of one user
\* (on_photo, choose_principal, cancel) leaves the pending submission, the
\* conversation states, the handler position and the locals of every other
\* user as they are; the file it writes and the row it appends carry the name
\* and the timestamp of its own user's pending submission, which is one of
\* that user's own photos.
C11_PendingIsPerUser ==
  /\ [][\A u \in Users : StepOf(u) =>
          /\ \A v \in Users \ {u} :
               /\ pending'[v] = pending[v]
               /\ pc'[v] = pc[v]
               /\ loc'[v] = loc[v]
               /\ \A c \in ChatsOf(v) : conv'[<<c, v>>] = conv[<<c, v>>]
          /\ (pc[u] = "cp_download" /\ writes' # writes) =>
               /\ OwnPending(u) /\ pending[u].file # 0
               /\ writes' = writes \cup
                    {[file |-> pending[u].file, user |-> u,
                      fecha |-> pending[u].fecha,
                      path |-> PHOTO_SAVE_ROOT \o "/" \o loc[u].principal
                                 \o "/" \o pending[u].nombre]}
          /\ (pc[u] = "cp_append" /\ csv' # csv) =>
               /\ OwnPending(u) /\ pending[u].file # 0
               /\ appended' = Append(appended, pending[u].file)
               /\ ArchivoOf(csv'[Len(csv')]) = pending[u].nombre
               /\ IsPrefix(csv, csv')]_vars
  /\ [](\A u \in Users : OwnPending(u))

\* User 1 completed a submission while a photo of user 2, taken at another
\* second, was pending; the photo of user 2 is still pending.
C11_Witness ==
  /\ FinalTransitionEnded
  /\ out.user = 1
  /\ out.exc = ""
  /\ out.l.nappends = 1
  /\ pending[2].file # 0
  /\ pending[2].file < out.l.file
  /\ pending[2].fecha # out.l.fecha
  /\ conv[<<"dm", 2>>] = ASK_PRINCIPAL

\* The first line of an existing ledger is the expected header, as ensure_csv
\* compares them: up to surrounding whitespace.
HeaderMatches(lines) ==
  /\ lines # <<>>
  /\ lines[1] # NotUtf8
  /\ strip(lines[1]) = strip(CSV_HEADER)

\* C12 (as stated): a call of ensure_csv leaves a ledger that begins with the
\* header; a second call in a row changes nothing; the rows of a correctly
\* headed ledger are untouched; and whenever the first line of an existing
\* ledger differs from the header, the old content is kept in a new backup
\* file and the ledger becomes the header alone.
C12_EnsureCsvIdempotentWithBackup ==
  [][calls' = calls + 1 =>
       /\ csv_exists' /\ HeaderMatches(csv')
       /\ calls >= 1 => (csv' = csv /\ backups' = backups)
       /\ (csv_exists /\ HeaderMatches(csv)) => (csv' = csv /\ backups' = backups)
       /\ (csv_exists /\ ~HeaderMatches(csv)) =>
            /\ csv' = <<CSV_HEADER>>
            /\ \E b \in DOMAIN backups' : backups'[b] = csv]_vars

\* The group label of each of the six location codes.
GroupOf(c) ==
  CASE c \in {"BR-OR", "BR-PON"} -> "BREMEN"
    [] c \in {"TALL-OR", "TALL-PON"} -> "TALLERES"
    [] c \in {"LOE-OR", "LOE-PON"} -> "LO ERRAZURIZ"
    [] OTHER -> "N/A"

GroupLabels == {"BREMEN", "TALLERES", "LO ERRAZURIZ"}

\* C13: a photo received at second t from the user with handle h and id i is
\* stored as pending with the name h_i_t.jpg and the timestamp t; nothing but
\* a new photo, the completion or a cancellation changes the pending
\* submission (no button press, valid or not, regenerates t); and when a valid
\* code c is pressed, whatever the time of the press, the file is written to
\* <root>/c/h_i_t.jpg and the row appended is "h_i_t.jpg,group(c),c,t", with
\* group(c) one of the three group labels, never "N/A".
C13_CommitUsesCaptureTime ==
  [][\A u \in Users :
       LET t == strftime(now)
           name == safe_user(u) \o "_" \o ToString(u) \o "_" \o pending[u].fecha
                     \o ".jpg"
           c == loc[u].principal
       IN /\ (pc[u] = "ph_get_file" /\ pc'[u] = "ph_reply") =>
               /\ pending'[u].fecha = t
               /\ pending'[u].nombre =
                    safe_user(u) \o "_" \o ToString(u) \o "_" \o t \o ".jpg"
          /\ pending'[u] # pending[u] =>
               \/ pc[u] = "ph_get_file" /\ pc'[u] = "ph_reply"
               \/ pending'[u] = NoPending
          /\ (pc[u] = "cp_download" /\ fs' # fs) =>
               /\ InChoices(c)
               /\ DOMAIN fs' =
                    DOMAIN fs \cup {PHOTO_SAVE_ROOT \o "/" \o c \o "/" \o name}
               /\ fs'[PHOTO_SAVE_ROOT \o "/" \o c \o "/" \o name].content =
                    pending[u].file
          /\ (pc[u] = "cp_append" /\ csv' # csv) =>
               /\ InChoices(c)
               /\ GroupOf(c) \in GroupLabels
               /\ csv' = Append(csv, name \o "," \o GroupOf(c) \o "," \o c \o ","
                                       \o pending[u].fecha \o "\n")]_vars

\* The photo of user ana (id 1) taken at second 0 was committed under BR-OR
\* by a press at second 1: path and row carry second 0.
C13_Witness ==
  /\ FinalTransitionEnded
  /\ out.exc = ""
  /\ out.user = 1
  /\ now = 1
  /\ "./photos/BR-OR/ana_1_2024-01-01 10-00-00.jpg" \in DOMAIN fs
  /\ csv[Len(csv)] =
       "ana_1_2024-01-01 10-00-00.jpg,BREMEN,BR-OR,2024-01-01 10-00-00\n"
  /\ \A f \in Files : \A w \in WritesOf(f, writes) : w.fecha = "2024-01-01 10-00-00"

\* The argument of frente_from_codigo starts with one of the three prefixes.
RecognizedPrefix(c) ==
  \E p \in {"BR", "TALL", "LOE"} : Len(c) >= Len(p) /\ SubSeq(c, 1, Len(p)) = p

\* C14: frente_from_codigo returns for each of the six codes its one group
\* label (BR-* BREMEN, TALL-* TALLERES, LOE-* LO ERRAZURIZ) and "N/A" for a
\* code that starts with none of the prefixes; so it returns "N/A" for none
\* of the codes of PRINCIPAL_CHOICES, the only ones choose_principal writes a
\* row for.
C14_FrenteFromCodigo ==
  frente # "" =>
    /\ frente = GroupOf(codigo)
    /\ frente = "N/A" <=> ~RecognizedPrefix(codigo)
    /\ InChoices(codigo) => frente \in GroupLabels

\* The function was applied to the last of the six codes.
C14_Witness ==
  /\ codigo = "LOE-PON"
  /\ frente = "LO ERRAZURIZ"

\* No update has been handled: no handler has started.
NoEventHandled ==
  /\ \A u \in Users : pc[u] = "idle"
  /\ out = NoOut
  /\ nextFile = 1
  /\ photos = <<>>

\* C15 (as stated): when BOT_TOKEN or MS_CLIENT_ID is not set, the process
\* fails at startup, so that no event is ever handled.
C15_AbsentValueFailsFast ==
  (BOT_TOKEN = "" \/ MS_CLIENT_ID = "") => NoEventHandled

\* C15 (amended): without BOT_TOKEN the process ends at import with an error
\* that names BOT_TOKEN and handles no event.  Without MS_CLIENT_ID alone it
\* polls; each call of upload_to_onedrive then raises an error that names
\* MS_CLIENT_ID, which is caught: the handler reports it in its one message
\* and returns END.
C15_OnlyBotTokenFailsFast ==
  /\ BOT_TOKEN = "" =>
       /\ proc \in {"import", "RuntimeError: Define BOT_TOKEN"}
       /\ NoEventHandled
       /\ csv_exists = FALSE
       /\ dirs = {}
  /\ (BOT_TOKEN # "" /\ MS_CLIENT_ID = "") =>
       /\ proc \in {"import", "polling"}
       /\ \A u \in Users :
            pc[u] \in {"cp_clear", "cp_msg"} =>
              /\ loc[u].e = "RuntimeError: Define MS_CLIENT_ID"
              /\ loc[u].od_note = "OneDrive fallo: RuntimeError: Define MS_CLIENT_ID"
       /\ (FinalTransitionEnded /\ out.l.nuploads > 0) =>
            /\ out.exc = ""
            /\ out.l.msgs =
                 <<"Guardado. OneDrive fallo: RuntimeError: Define MS_CLIENT_ID">>
            /\ conv[<<out.l.chat, out.user>>] = END

\* Started without MS_CLIENT_ID, the bot completed a submission with the
\* warning.
C15_Witness ==
  /\ BOT_TOKEN # ""
  /\ MS_CLIENT_ID = ""
  /\ proc = "polling"
  /\ FinalTransitionEnded
  /\ out.l.nuploads = 1
  /\ out.l.e = "RuntimeError: Define MS_CLIENT_ID"

\* C16 (as stated): when choose_principal ends and the download had returned
\* but the destination file is absent or zero-length, the handler appended no
\* row, called no upload, and told the user of the failure in a message.
C16_UnsavedFileFailsAndIsReported ==
  (/\ FinalTransitionEnded
   /\ out.exc # "NetworkError"
   /\ ensure_saved(fs, out.l.dest_path) # "") =>
     /\ out.l.nappends = 0
     /\ out.l.nuploads = 0
     /\ RowsOf(out.l.file, appended) = {}
     /\ UploadsOf(out.l.file, uploads) = {}
     /\ out.l.msgs # <<>>

\* The steps of the final transition from the download to the upload are in
\* order: when the row is about to be appended the file is on disk, verified,
\* and has neither row nor upload; when the upload is about to be called the
\* row is there; when user_data is about to be cleared the upload was called
\* and nothing was reported yet.  No submission has an upload without a row.
PersistAppendUploadInOrder ==
  /\ \A u \in Users :
       LET f == loc[u].file
       IN /\ pc[u] \in {"cp_download", "cp_ensure"} =>
               /\ RowsOf(f, appended) = {}
               /\ UploadsOf(f, uploads) = {}
          /\ pc[u] = "cp_append" =>
               /\ ensure_saved(fs, loc[u].dest_path) = ""
               /\ fs[loc[u].dest_path].content = f
               /\ RowsOf(f, appended) = {}
               /\ UploadsOf(f, uploads) = {}
          /\ pc[u] = "cp_upload" =>
               /\ ensure_saved(fs, loc[u].dest_path) = ""
               /\ Cardinality(RowsOf(f, appended)) = 1
               /\ UploadsOf(f, uploads) = {}
          /\ pc[u] = "cp_clear" =>
               /\ Cardinality(RowsOf(f, appended)) = 1
               /\ UploadsOf(f, uploads) # {}
               /\ pending[u].file = f
               /\ loc[u].msgs = <<>>
  /\ \A f \in Files : UploadsOf(f, uploads) # {} => HasRow(f)

\* The final transition ended without exception: its one message was sent,
\* nothing is pending and the conversation is terminal.
CompletedIsTerminal ==
  (FinalTransitionEnded /\ out.exc = "") =>
    /\ Len(out.l.msgs) = 1
    /\ pending[out.user] = NoPending
    /\ conv[<<out.l.chat, out.user>>] = END

\* C17 (as stated): persist and verify, append, upload, report, clear,
\* terminal: while the success message is being sent the submission is still
\* pending, as it is cleared only afterwards.
C17_ReportBeforeClear ==
  /\ PersistAppendUploadInOrder
  /\ \A u \in Users :
       pc[u] = "cp_msg" =>
         /\ pending[u].file = loc[u].file
         /\ conv[<<loc[u].chat, u>>] = ASK_PRINCIPAL
  /\ CompletedIsTerminal

\* C17 (amended): persist and verify, append, upload, clear, report,
\* terminal: while the success message is being sent the pending submission
\* is already cleared and the conversation is not yet terminal.
C17_ClearBeforeReport ==
  /\ PersistAppendUploadInOrder
  /\ \A u \in Users :
       pc[u] = "cp_msg" =>
         /\ pending[u] = NoPending
         /\ loc[u].msgs = <<>>
         /\ conv[<<loc[u].chat, u>>] = ASK_PRINCIPAL
  /\ CompletedIsTerminal

\* A handler is sending the success message of a submission that has its
\* file, its row and its upload.
C17_Witness ==
  \E u \in Users :
    /\ pc[u] = "cp_msg"
    /\ pending[u] = NoPending
    /\ HasRow(loc[u].file)
    /\ Written(loc[u].file)
    /\ UploadsOf(loc[u].file, uploads) # {}

\* A conversation of user u is in ASK_PRINCIPAL.
AwaitingLocation(u) == \E c \in ChatsOf(u) : conv[<<c, u>>] = ASK_PRINCIPAL

\* A photo is pending for user u.
HasPending(u) == pending[u].file # 0

\* The pending submission is there when on_photo has ended and gone when
\* cancel has ended or choose_principal has completed.
CreatedByPhotoGoneAfterEnd ==
  /\ out.l.handler = "on_photo" =>
       (HasPending(out.user) /\ conv[<<out.l.chat, out.user>>] = ASK_PRINCIPAL)
  /\ (\/ out.l.handler = "cancel"
      \/ FinalTransitionEnded /\ out.exc = "") =>
       (~HasPending(out.user) /\ conv[<<out.l.chat, out.user>>] = END)

\* C18 (as stated): whenever no handler is running, a user has a pending
\* submission if and only if a conversation of that user is in ASK_PRINCIPAL.
C18_PendingIffAwaitingLocation ==
  Quiescent =>
    /\ \A u \in Users : HasPending(u) <=> AwaitingLocation(u)
    /\ CreatedByPhotoGoneAfterEnd

\* C18 (amended): whenever no handler is running, a user with a pending
\* submission has a conversation in ASK_PRINCIPAL; the converse holds for a
\* user who talks to the bot in one chat only.
C18_PendingImpliesAwaitingLocation ==
  Quiescent =>
    /\ \A u \in Users :
         /\ HasPending(u) => AwaitingLocation(u)
         /\ Cardinality(ChatsOf(u)) = 1 => (AwaitingLocation(u) => HasPending(u))
    /\ CreatedByPhotoGoneAfterEnd

\* User 1 cancelled in one chat; the conversation in the other chat is still
\* in ASK_PRINCIPAL and nothing is pending.
C18_Witness ==
  /\ Quiescent
  /\ out.l.handler = "cancel"
  /\ out.user = 1
  /\ ~HasPending(1)
  /\ AwaitingLocation(1)
  /\ conv[<<out.l.chat, 1>>] = END
====
